---- MODULE Spec2Model ----
(***************************************************************************)
(* The Wishbone master of cocotbext/wishbone/driver.py as a state machine. *)
(*                                                                         *)
(* The master object, the bus signals, the coroutines that run on it       *)
(* (send_cycle with the coroutines it yields to, the forked reply reader   *)
(* _read and the forked _clk_cycle_counter) and the simulator's scheduler  *)
(* are the state.  Every coroutine runs from one wait point to the next    *)
(* in one step; a clock edge makes the coroutines waiting for it runnable  *)
(* in the order in which they started to wait.                             *)
(***************************************************************************)
EXTENDS Integers, Sequences, FiniteSets, TLC

\* ------------------------------------------------------------------ bounds
MaxTimeout == 1   \* largest configured timeout
MaxCount   == 3   \* counters stop counting here (values >= MaxCount are one)
MaxRes     == 2   \* the slave stops replying when _res_buf would grow past this
MaxIdle    == 2   \* largest idle count of an operation

\* ------------------------------------------------------------------ values
None == -1

Inc(n) == IF n < MaxCount THEN n + 1 ELSE n

\* WBOp(adr, dat, idle, sel); isop is isinstance(op, WBOp)
WBOp(adr, dat, idle, sel) ==
    [isop |-> TRUE, adr |-> adr, dat |-> dat, sel |-> sel, idle |-> idle]

OpRead  == WBOp(1, None, MaxIdle, 15)
OpWrite == WBOp(2, 5, 0, 3)
NotOp   == [isop |-> FALSE, adr |-> 0, dat |-> None, sel |-> 0, idle |-> 0]

WBAux(sel, adr, datwr, waitStall, waitIdle, tsStb) ==
    [sel |-> sel, adr |-> adr, datwr |-> datwr, waitIdle |-> waitIdle,
     waitStall |-> waitStall, ts |-> tsStb]

WBRes(ack, sel, adr, datrd, datwr, waitIdle, waitStall, waitAck) ==
    [ack |-> ack, sel |-> sel, adr |-> adr, datrd |-> datrd, datwr |-> datwr,
     waitStall |-> waitStall, waitAck |-> waitAck, waitIdle |-> waitIdle]

\* what a caller may pass: a sequence, or something that is no sequence
ArgSet  == {[seq |-> TRUE, items |-> s] :
               s \in {<<>>, <<OpWrite>>, <<OpRead, OpWrite>>, <<OpWrite, NotOp>>}}
               \cup {[seq |-> FALSE, items |-> <<>>]}
\* the optional signals a bus has besides sel.  A bus without err or rty
\* behaves as one on which the slave never raises that line.
OptSignals       == {{"err", "rty"}, {"stall", "err", "rty"}}
OptSignalsShared == {{}, {"stall"}}
\* what the slave may put on ack, err, rty and datrd at a clock edge: the data
\* word tells which lines came with it
SlaveOutputs ==
    {[ack |-> a, err |-> e, rty |-> r,
      datrd |-> (IF a THEN 1 ELSE 0) + (IF e THEN 2 ELSE 0) + (IF r THEN 4 ELSE 0)] :
        a \in BOOLEAN, e \in BOOLEAN, r \in BOOLEAN}
TimeoutSet == {None} \cup 0..MaxTimeout

is_sequence(arg) == arg.seq


VARIABLES
    wb,     \* the WishboneMaster object's attributes
    bus,    \* the bus: outputs written by the master, inputs driven by the slave
    task,   \* the send_cycle invocations: position and locals
    sched,  \* the scheduler: who waits for the clock edge, who runs, who waits for busy_event
    mon,    \* an AvalonSTPktsMonitor: configuration, _monitor_recv's locals, Monitor's sinks
    ctor    \* a construction of AvalonSTPktsMonitor: its arguments and its outcome

vars == <<wb, bus, task, sched, mon, ctor>>

\* no monitor is part of the test, nothing is being constructed
NoMonitor == [kind |-> "none"]
NoCtor    == [kind |-> "none"]

ReadTask    == [k |-> "read", c |-> 0]
CounterTask == [k |-> "counter", c |-> 0]
SendTask(c) == [k |-> "send", c |-> c]

NewTask == [st |-> "new", pc |-> "none", arg |-> [seq |-> FALSE, items |-> <<>>],
            i |-> 0, idlecnt |-> 0, count |-> 0, nstall |-> 0,
            result |-> <<>>, exc |-> "none", openedBusy |-> FALSE]

\* Wishbone.__init__ and WishboneMaster.__init__ on a bus with the optional
\* signals opt and the timeout t, for the send_cycle invocations ids
Construct(t, opt, ids) ==
    /\ wb = [_timeout |-> t, busy |-> FALSE, busy_event |-> FALSE, _acked_ops |-> 0,
             _res_buf |-> <<>>, _aux_buf |-> <<>>, _op_cnt |-> 0,
             _clk_cycle_count |-> 0]
    /\ bus = [cyc |-> 0, stb |-> 0, we |-> 0, adr |-> 0, datwr |-> 0, sel |-> 15,
              has_stall |-> "stall" \in opt, has_err |-> "err" \in opt,
              has_rty |-> "rty" \in opt,
              ack |-> FALSE, err |-> FALSE, rty |-> FALSE, stall |-> FALSE, datrd |-> 0]
    /\ task = [c \in ids |-> NewTask]
    /\ sched = [waiters |-> <<>>, runq |-> <<>>, evwait |-> <<>>, failed |-> "none"]
    /\ mon = NoMonitor
    /\ ctor = NoCtor

\* one test calls send_cycle once
Init == \E t \in TimeoutSet, opt \in OptSignals : Construct(t, opt, {1})

\* two tests use the same master
InitShared == \E t \in TimeoutSet, opt \in OptSignalsShared : Construct(t, opt, {1, 2})

Calls == DOMAIN task

\* the whole state as one value, so that a coroutine's code composes
State == [wb |-> wb, bus |-> bus, task |-> task, sched |-> sched]

Min(a, b) == IF a < b THEN a ELSE b

\* -------------------------------------------------------------- scheduler
\* An exception nobody catches reaches the scheduler and ends the test:
\* every coroutine is killed; the master object stays as it was.
KillAll(S, what) ==
    [S EXCEPT !.task = [c \in DOMAIN S.task |->
                          IF S.task[c].st = "run"
                          THEN [NewTask EXCEPT !.st = "killed", !.arg = S.task[c].arg,
                                               !.openedBusy = S.task[c].openedBusy]
                          ELSE S.task[c]],
              !.sched = [waiters |-> <<>>, runq |-> <<>>, evwait |-> <<>>,
                         failed |-> what]]

\* raise inside send_cycle invocation c: the failure goes through the caller
\* to the scheduler
Raise(S, c, what) ==
    KillAll([S EXCEPT !.task[c] = [NewTask EXCEPT !.st = "exc", !.exc = what,
                                                  !.arg = S.task[c].arg,
                                                  !.openedBusy = S.task[c].openedBusy]], what)

\* yield self.bus.clock_event in invocation c, to resume at pc
Yield(S, c, pc) ==
    [S EXCEPT !.task[c].pc = pc, !.sched.waiters = Append(@, SendTask(c))]

\* Event.set(): the coroutines waiting for the event run in this time step,
\* after the coroutines already runnable
EventSet(S) ==
    [S EXCEPT !.wb.busy_event = TRUE,
              !.sched.runq = @ \o S.sched.evwait,
              !.sched.evwait = <<>>]

\* ----------------------------------------------------------------- driver
\* _timeout is not None and count > _timeout
TimedOutStrict(count, timeout) == timeout # None /\ count >= timeout
TimedOutNoneIsZero(count, timeout) == count > (IF timeout = None THEN 0 ELSE timeout)
TimedOut(count, timeout) == timeout # None /\ count > timeout

\* WishboneMaster._get_reply: [raised, ack, code]
GetReplyNoRtyCheck(b) ==
    LET errHi == b.has_err /\ b.err
        rtyHi == b.has_rty /\ b.rty
    IN  IF errHi /\ b.ack
        THEN [raised |-> TRUE, ack |-> TRUE, code |-> 1]
        ELSE [raised |-> FALSE, ack |-> b.ack \/ errHi \/ rtyHi,
              code |-> IF rtyHi THEN 3 ELSE IF errHi THEN 2 ELSE IF b.ack THEN 1 ELSE 0]
_get_reply(b) ==
    LET ack0  == b.ack
        code0 == IF ack0 THEN 1 ELSE 0
        errHi == b.has_err /\ b.err
        rtyHi == b.has_rty /\ b.rty
        ack1  == ack0 \/ errHi
        code1 == IF errHi THEN 2 ELSE code0
    IN  IF errHi /\ ack0
        THEN [raised |-> TRUE, ack |-> ack0, code |-> code0]
        ELSE IF rtyHi /\ ack1
        THEN [raised |-> TRUE, ack |-> ack1, code |-> code1]
        ELSE [raised |-> FALSE, ack |-> ack1 \/ rtyHi,
              code |-> IF rtyHi THEN 3 ELSE code1]

\* WishboneMaster._read, from the loop test to the next wait for the clock
ReadRecordsEveryEdge(S) ==
    IF ~S.wb.busy THEN S
    ELSE LET r == _get_reply(S.bus) IN
         IF r.raised THEN KillAll(S, "protocol")
         ELSE LET tmpRes == WBRes(r.code, None, None, S.bus.datrd, None, None, None,
                                  S.wb._clk_cycle_count)
              IN  [S EXCEPT !.wb._res_buf = Append(@, tmpRes),
                            !.wb._acked_ops = @ + 1,
                            !.sched.waiters = Append(@, ReadTask)]
_read(S) ==
    IF ~S.wb.busy THEN S
    ELSE LET r == _get_reply(S.bus) IN
         IF r.raised THEN KillAll(S, "protocol")
         ELSE LET tmpRes == WBRes(r.code, None, None, S.bus.datrd, None, None, None,
                                  S.wb._clk_cycle_count)
                  S1 == IF r.ack
                        THEN [S EXCEPT !.wb._res_buf = Append(@, tmpRes),
                                       !.wb._acked_ops = @ + 1]
                        ELSE S
              IN  [S1 EXCEPT !.sched.waiters = Append(@, ReadTask)]

\* WishboneMaster._clk_cycle_counter, from the loop test to the next wait
_clk_cycle_counter(S) ==
    IF S.wb.busy THEN [S EXCEPT !.sched.waiters = Append(@, CounterTask)] ELSE S

\* send_cycle after _close_cycle: pick and mix result and auxiliary buffer.
\* The WBRes objects of _res_buf are the ones changed and returned.
ZipAll(res, aux) ==
    [k \in 1..Len(res) |->
        LET a == aux[Min(k, Len(aux))] IN
        [res[k] EXCEPT !.datwr = a.datwr, !.sel = a.sel, !.adr = a.adr,
                       !.waitIdle = a.waitIdle, !.waitStall = a.waitStall,
                       !.waitAck = @ - a.ts]]
Zip(res, aux) ==
    [k \in 1..Min(Len(res), Len(aux)) |->
        [res[k] EXCEPT !.datwr = aux[k].datwr, !.sel = aux[k].sel, !.adr = aux[k].adr,
                       !.waitIdle = aux[k].waitIdle, !.waitStall = aux[k].waitStall,
                       !.waitAck = @ - aux[k].ts]]

send_cycle_result(S, c) ==
    LET result == Zip(S.wb._res_buf, S.wb._aux_buf)
    IN  [S EXCEPT !.wb._res_buf = result \o SubSeq(@, Len(result) + 1, Len(@)),
                  !.task[c].result = result, !.task[c].st = "ret",
                  !.task[c].pc = "none"]

\* the loop test of _close_cycle
CloseWaitsForOneLess(w) == w._acked_ops + 1 < w._op_cnt
CloseWaits(w) == w._acked_ops < w._op_cnt

\* WishboneMaster._close_cycle, from the loop test to the next wait
CloseCycleTestsBeforeCounting(S, c) ==
    IF CloseWaits(S.wb)
    THEN IF TimedOut(S.task[c].count, S.wb._timeout)
         THEN Raise(S, c, "timeout_reply")
         ELSE Yield([S EXCEPT !.task[c].count = Inc(@)], c, "close")
    ELSE LET S1 == EventSet([S EXCEPT !.wb.busy = FALSE]) IN
         Yield([S1 EXCEPT !.bus.cyc = 0], c, "closed")
_close_cycle(S, c) ==
    IF CloseWaits(S.wb)
    THEN LET count == Inc(S.task[c].count) IN
         IF TimedOut(count, S.wb._timeout)
         THEN Raise([S EXCEPT !.task[c].count = count], c, "timeout_reply")
         ELSE Yield([S EXCEPT !.task[c].count = count], c, "close")
    ELSE LET S1 == EventSet([S EXCEPT !.wb.busy = FALSE]) IN
         Yield([S1 EXCEPT !.bus.cyc = 0], c, "closed")

\* WishboneMaster._drive up to the wait after the outputs are driven
DriveSkipsAnIdleCycle(S, c) ==
    LET t  == S.task[c]
        op == t.arg.items[t.i]
    IN  IF t.idlecnt > 1
        THEN Yield([S EXCEPT !.task[c].idlecnt = @ - 1], c, "idle")
        ELSE Yield([S EXCEPT !.bus.stb = 1, !.bus.adr = op.adr, !.bus.sel = op.sel,
                             !.bus.datwr = IF op.dat # None THEN op.dat ELSE 0,
                             !.bus.we = IF op.dat # None THEN 1 ELSE 0],
                   c, "strobe")
_drive(S, c) ==
    LET t  == S.task[c]
        op == t.arg.items[t.i]
    IN  IF t.idlecnt > 0
        THEN Yield([S EXCEPT !.task[c].idlecnt = @ - 1], c, "idle")
        ELSE Yield([S EXCEPT !.bus.stb = 1, !.bus.adr = op.adr, !.bus.sel = op.sel,
                             !.bus.datwr = IF op.dat # None THEN op.dat ELSE 0,
                             !.bus.we = IF op.dat # None THEN 1 ELSE 0],
                   c, "strobe")

\* the for loop of send_cycle, from the head of the loop
RECURSIVE send_cycle_ops(_, _)
send_cycle_ops(S, c) ==
    LET t == S.task[c] IN
    IF t.i > Len(t.arg.items)
    THEN _close_cycle([S EXCEPT !.task[c].count = 0], c)
    ELSE IF ~t.arg.items[t.i].isop
    THEN Raise(S, c, "usage")
    ELSE IF S.wb.busy
    THEN _drive([S EXCEPT !.task[c].idlecnt = t.arg.items[t.i].idle], c)
    ELSE send_cycle_ops([S EXCEPT !.task[c].i = @ + 1], c)

\* the end of _drive: strobe and write enable are reset, the loop goes on
_drive_end(S, c) ==
    send_cycle_ops([S EXCEPT !.bus.stb = 0, !.bus.we = 0, !.task[c].i = @ + 1], c)

\* WishboneMaster._wait_ack, from the loop test
WaitAckReturnsAtOnce(S, c) == _drive_end(S, c)
_wait_ack(S, c) ==
    IF S.bus.has_stall THEN _drive_end(S, c)
    ELSE LET r == _get_reply(S.bus) IN
         IF r.raised THEN Raise(S, c, "protocol")
         ELSE IF ~r.ack THEN Yield(S, c, "ack")
         ELSE _drive_end(S, c)

\* _drive after _wait_stall returned: the auxiliary buffer gets the operation
AuxSwapped(S, c) ==
    LET op == S.task[c].arg.items[S.task[c].i] IN
    WBAux(op.adr, op.sel, IF op.dat # None THEN op.dat ELSE 0,
          S.task[c].count, op.idle, S.wb._clk_cycle_count)
Aux(S, c) ==
    LET op == S.task[c].arg.items[S.task[c].i] IN
    WBAux(op.sel, op.adr, IF op.dat # None THEN op.dat ELSE 0,
          S.task[c].count, op.idle, S.wb._clk_cycle_count)

_drive_aux(S, c) ==
    _wait_ack([S EXCEPT !.wb._aux_buf = Append(@, Aux(S, c))], c)

\* WishboneMaster._wait_stall, from the loop test
WaitStallReturnsAtOnce(S, c) == _drive_aux(S, c)
_wait_stall(S, c) ==
    IF S.bus.has_stall /\ S.bus.stall
    THEN Yield([S EXCEPT !.task[c].nstall = Inc(@)], c, "stall")
    ELSE _drive_aux(S, c)

\* _wait_stall resumed after the clock edge it waited for
_wait_stall_resume(S, c) ==
    LET count == Inc(S.task[c].count) IN
    IF TimedOut(count, S.wb._timeout)
    THEN Raise([S EXCEPT !.task[c].count = count], c, "timeout_stall")
    ELSE _wait_stall([S EXCEPT !.task[c].count = count], c)

\* WishboneMaster._open_cycle after the busy test
OpenCycleForksLate(S, c) ==
    LET S1 == [S EXCEPT !.wb.busy_event = FALSE, !.wb.busy = TRUE,
                        !.wb._clk_cycle_count = 0]
        S4 == [S1 EXCEPT !.bus.cyc = 1, !.wb._acked_ops = 0,
                         !.wb._res_buf = <<>>, !.wb._aux_buf = <<>>]
        S5 == send_cycle_ops([S4 EXCEPT !.task[c].i = 1], c)
    IN  IF S5.task[c].st # "run" THEN S5
        ELSE LET S6 == _read(S5) IN
             IF S6.task[c].st # "run" THEN S6 ELSE _clk_cycle_counter(S6)
_open_cycle_body(S, c) ==
    LET S1 == [S EXCEPT !.wb.busy_event = FALSE, !.wb.busy = TRUE]
        S2 == _read(S1)                                    \* cocotb.fork(self._read())
    IN  IF S2.task[c].st # "run" THEN S2
        ELSE LET S3 == _clk_cycle_counter([S2 EXCEPT !.wb._clk_cycle_count = 0])
                 S4 == [S3 EXCEPT !.bus.cyc = 1, !.wb._acked_ops = 0,
                                  !.wb._res_buf = <<>>, !.wb._aux_buf = <<>>]
             IN  send_cycle_ops([S4 EXCEPT !.task[c].i = 1], c)

\* WishboneMaster._open_cycle
OpenWaitsNever(w) == FALSE
OpenWaits(w) == w.busy /\ ~w.busy_event

OpenCycleGuarded(S, c) ==
    IF OpenWaits(S.wb)
    THEN IF S.wb._timeout # None
         THEN Raise(S, c, "timeout_open")
         ELSE [S EXCEPT !.task[c].pc = "open_wait", !.task[c].openedBusy = TRUE,
                        !.sched.evwait = Append(@, SendTask(c))]
    ELSE _open_cycle_body(S, c)
_open_cycle(S, c) ==
    IF OpenWaits(S.wb)
    THEN [S EXCEPT !.task[c].pc = "open_wait", !.task[c].openedBusy = TRUE,
                   !.sched.evwait = Append(@, SendTask(c))]
    ELSE _open_cycle_body(S, c)

\* WishboneMaster.send_cycle after its first wait for the clock
SendCycleEmptyReturns(S, c) ==
    LET arg == S.task[c].arg IN
    IF ~is_sequence(arg) THEN Raise(S, c, "usage")
    ELSE LET S1 == [S EXCEPT !.wb._op_cnt = Len(arg.items)] IN
         IF S1.wb._op_cnt < 1
         THEN [S1 EXCEPT !.task[c].result = <<>>, !.task[c].st = "ret",
                         !.task[c].pc = "none"]
         ELSE _open_cycle(S1, c)
send_cycle(S, c) ==
    LET arg == S.task[c].arg IN
    IF ~is_sequence(arg) THEN Raise(S, c, "usage")
    ELSE LET S1 == [S EXCEPT !.wb._op_cnt = Len(arg.items)] IN
         IF S1.wb._op_cnt < 1 THEN Raise(S1, c, "unbound_result")
         ELSE _open_cycle(S1, c)

\* ---------------------------------------------------------------- actions
Set(S) ==
    /\ wb' = S.wb /\ bus' = S.bus /\ task' = S.task /\ sched' = S.sched
    /\ UNCHANGED <<mon, ctor>>

\* the state in which the head of the run queue has been taken off it
Popped == [State EXCEPT !.sched.runq = Tail(@)]

\* the head of the run queue is resumed, once a returned list has been taken
Runs(k) ==
    /\ sched.runq # <<>>
    /\ Head(sched.runq).k = k
    /\ \A d \in Calls : task[d].st # "ret"
RunsAt(c, pc) == Runs("send") /\ Head(sched.runq).c = c /\ task[c].pc = pc

NumReaders == Cardinality({k \in 1..Len(sched.waiters) : sched.waiters[k].k = "read"})

\* a test calls send_cycle(arg): the coroutine runs to its first wait
Call(c, arg, front) ==
    /\ sched.runq = <<>>
    /\ \A d \in Calls : task[d].st # "ret"
    /\ task[c].st = "new"
    /\ \A d \in Calls : d < c => task[d].st # "new"
    /\ task' = [task EXCEPT ![c] = [NewTask EXCEPT !.st = "run", !.pc = "start",
                                                   !.arg = arg]]
    /\ sched' = [sched EXCEPT !.waiters = IF front THEN <<SendTask(c)>> \o @
                                          ELSE Append(@, SendTask(c))]
    /\ UNCHANGED <<wb, bus, mon, ctor>>

\* a clock edge: the slave's outputs have their values for this edge, and the
\* coroutines waiting for the edge become runnable in the order they waited.
\* The slave replies while the result buffer stays within maxRes.
ClockEdgeWithin(o, stall, maxRes) ==
    /\ sched.runq = <<>>
    /\ sched.waiters # <<>>
    /\ \A d \in Calls : task[d].st # "ret"
    /\ o.err => bus.has_err
    /\ o.rty => bus.has_rty
    /\ stall => bus.has_stall /\ bus.stb = 1    \* stall is read only under strobe
    /\ (o.ack \/ o.err \/ o.rty) => Len(wb._res_buf) + NumReaders <= maxRes
    /\ bus' = [bus EXCEPT !.ack = o.ack, !.err = o.err, !.rty = o.rty, !.stall = stall,
                          !.datrd = o.datrd]
    /\ sched' = [sched EXCEPT !.runq = sched.waiters, !.waiters = <<>>]
    /\ UNCHANGED <<wb, task, mon, ctor>>

ClockEdge(o, stall) == ClockEdgeWithin(o, stall, MaxRes)

ReadStep == Runs("read") /\ Set(_read(Popped))

CounterStep ==
    /\ Runs("counter")
    /\ Set(_clk_cycle_counter([Popped EXCEPT !.wb._clk_cycle_count = Inc(@)]))

SendCycleStart(c)  == RunsAt(c, "start") /\ Set(send_cycle(Popped, c))
OpenCycleResume(c) == RunsAt(c, "open_wait") /\ Set(_open_cycle_body(Popped, c))
DriveIdle(c)       == RunsAt(c, "idle") /\ Set(_drive(Popped, c))
DriveStrobed(c) ==
    /\ RunsAt(c, "strobe")
    /\ Set(_wait_stall([Popped EXCEPT !.task[c].count = 0, !.task[c].nstall = 0], c))
WaitStallResume(c) == RunsAt(c, "stall") /\ Set(_wait_stall_resume(Popped, c))
WaitAckResume(c)   == RunsAt(c, "ack") /\ Set(_wait_ack(Popped, c))
CloseCycleResume(c) == RunsAt(c, "close") /\ Set(_close_cycle(Popped, c))
SendCycleReturn(c) == RunsAt(c, "closed") /\ Set(send_cycle_result(Popped, c))

\* the caller has the returned list; the invocation is over
Returned(c) ==
    /\ task[c].st = "ret"
    /\ task' = [task EXCEPT ![c] = [NewTask EXCEPT !.st = "done"]]
    /\ UNCHANGED <<wb, bus, sched, mon, ctor>>

NextSolo ==
    \/ \E c \in Calls, arg \in ArgSet, front \in BOOLEAN : Call(c, arg, front)
    \/ \E o \in SlaveOutputs, stall \in BOOLEAN : ClockEdge(o, stall)
    \/ ReadStep
    \/ CounterStep
    \/ \E c \in Calls : SendCycleStart(c)
    \/ \E c \in Calls : DriveIdle(c)
    \/ \E c \in Calls : DriveStrobed(c)
    \/ \E c \in Calls : WaitStallResume(c)
    \/ \E c \in Calls : WaitAckResume(c)
    \/ \E c \in Calls : CloseCycleResume(c)
    \/ \E c \in Calls : SendCycleReturn(c)
    \/ \E c \in Calls : Returned(c)

Next == NextSolo \/ \E c \in Calls : OpenCycleResume(c)

\* one invocation, on a bus with every reply line
Spec == Init /\ [][NextSolo]_vars

\* the clock keeps running and the scheduler resumes what is runnable
FairSpec == Spec /\ WF_vars(NextSolo)

\* two invocations, one after the other or at the same time
SpecShared == InitShared /\ [][Next]_vars

\* ------------------------------------------------------------------ claims
Ops(c)       == task[c].arg.items
ValidArg(c)  == task[c].arg.seq /\ \A k \in 1..Len(Ops(c)) : Ops(c)[k].isop
TimeoutExc   == {"timeout_stall", "timeout_reply"}

\* C1: a send_cycle that returns, called with N operations on an idle master,
\* returns exactly N results, whatever the slave did.
C1_ResultPerOperation ==
    \A c \in Calls :
        task[c].st = "ret" => Len(task[c].result) = Len(Ops(c))

\* a cycle of two operations returned although the slave stalled the master
C1_Witness ==
    \E c \in Calls :
        /\ task[c].st = "ret"
        /\ Len(Ops(c)) = 2
        /\ \E k \in 1..2 : task[c].result[k].waitStall > 0

\* C2: the result at position i echoes the operation at position i: adr, sel
\* and waitIdle are the operation's adr, sel and idle, and for a write datwr is
\* the operation's dat.
C2_ResultEchoesOperation ==
    \A c \in Calls :
        task[c].st = "ret" =>
            \A k \in 1..Len(task[c].result) :
                /\ k <= Len(Ops(c))
                /\ task[c].result[k].adr = Ops(c)[k].adr
                /\ task[c].result[k].sel = Ops(c)[k].sel
                /\ task[c].result[k].waitIdle = Ops(c)[k].idle
                /\ Ops(c)[k].dat # None => task[c].result[k].datwr = Ops(c)[k].dat

\* a read followed by a write returned, answered by err and by rty
C2_Witness ==
    \E c \in Calls :
        /\ task[c].st = "ret"
        /\ Ops(c) = <<OpRead, OpWrite>>
        /\ task[c].result[1].ack = 2
        /\ task[c].result[2].ack = 3

\* C3 as claimed: a sequence with an element that is no WBOp fails before any
\* bus activity: cyc and stb are never asserted, nothing is driven and busy
\* stays False.
C3_UsageFaultBeforeBusActivity ==
    \A c \in Calls :
        (task[c].arg.seq /\ ~ValidArg(c)) =>
            /\ bus.cyc = 0
            /\ bus.stb = 0
            /\ ~wb.busy
            /\ wb._aux_buf = <<>>

MultiReply(b) ==
    \/ b.ack /\ b.has_err /\ b.err
    \/ b.ack /\ b.has_rty /\ b.rty
    \/ b.has_err /\ b.err /\ b.has_rty /\ b.rty

BuffersUnchanged ==
    /\ wb'._res_buf = wb._res_buf
    /\ wb'._aux_buf = wb._aux_buf
    /\ wb'._acked_ops = wb._acked_ops

\* C4: send_cycle called with an empty sequence fails, it returns no list,
\* and leaves cyc, stb, busy and the buffers as they were.
C4_EmptySequenceFails ==
    [][\A c \in {1, 2} :
          (RunsAt(c, "start") /\ task[c].arg.seq /\ Len(Ops(c)) = 0) =>
              /\ task'[c].st = "exc"
              /\ task'[c].result = <<>>
              /\ bus'.cyc = bus.cyc /\ bus'.stb = bus.stb
              /\ wb'.busy = wb.busy
              /\ BuffersUnchanged]_vars

\* the empty call failed while another cycle was open and had results buffered
C4_Witness ==
    \E c \in Calls :
        /\ task[c].exc = "unbound_result"
        /\ bus.cyc = 1 /\ wb.busy
        /\ wb._res_buf # <<>> /\ wb._aux_buf # <<>>

\* C5: at a clock edge sampled while a cycle is open (by the running reader,
\* or by the reader forked when the cycle opens), more than one of ack, err
\* and rty asserted is a fatal failure, and the edge records no result and
\* does not count as acknowledged.
C5_AmbiguousReplyIsFatal ==
    [][/\ (Runs("read") /\ wb.busy /\ MultiReply(bus)) =>
              /\ sched'.failed = "protocol"
              /\ BuffersUnchanged
       /\ (Runs("send") /\ ~wb.busy /\ wb'.busy /\ MultiReply(bus)) =>
              /\ sched'.failed = "protocol"
              /\ BuffersUnchanged]_vars

\* the master failed on err together with rty, ack low
C5_Witness ==
    /\ sched.failed = "protocol"
    /\ bus.err /\ bus.rty /\ ~bus.ack
    /\ \E c \in Calls : task[c].st = "killed" /\ wb._aux_buf # <<>>

\* C6: with a stall signal and the timeout T, an operation stalled on at most
\* T consecutive edges after its strobe is not failed and records that number
\* as waitStall; stalled on T+1 edges, the stall timeout is raised when the
\* (T+1)-th stalled cycle is counted.
C6_StallTimeout ==
    [][\A c \in {1} :
          /\ (RunsAt(c, "stall") /\ wb._timeout # None /\ task[c].nstall <= wb._timeout) =>
                 task'[c].exc # "timeout_stall"
          /\ (RunsAt(c, "stall") /\ wb._timeout # None /\ task[c].nstall = wb._timeout + 1) =>
                 task'[c].exc = "timeout_stall"
          /\ (RunsAt(c, "stall") /\ Len(wb'._aux_buf) = Len(wb._aux_buf) + 1) =>
                 /\ wb'._aux_buf[Len(wb'._aux_buf)].waitStall = task[c].nstall
                 /\ wb._timeout # None => task[c].nstall <= wb._timeout
          /\ (RunsAt(c, "strobe") /\ Len(wb'._aux_buf) = Len(wb._aux_buf) + 1) =>
                 wb'._aux_buf[Len(wb'._aux_buf)].waitStall = 0]_vars

\* the stall timeout was raised with T = 1
C6_Witness ==
    /\ wb._timeout = 1
    /\ \E c \in Calls : task[c].exc = "timeout_stall"

\* operations strobed in the cycle: the auxiliary buffer has one entry for
\* each, but for the one under strobe
IssuedOps ==
    Len(wb._aux_buf)
      + (IF \E c \in Calls : task[c].pc \in {"strobe", "stall"} THEN 1 ELSE 0)

\* C7: cyc is lowered only after as many replies as issued operations were
\* collected: while fewer were collected, cyc is asserted and busy is True.
C7_CycHeldUntilAcked ==
    wb._acked_ops < IssuedOps => (bus.cyc = 1 /\ wb.busy)

\* the master waits in close for a missing reply
C7_Witness ==
    \E c \in Calls :
        /\ task[c].pc = "close"
        /\ wb._acked_ops = 1 /\ Len(wb._aux_buf) = 2
        /\ bus.cyc = 1

\* C8 as stated: with the timeout None or 0 no timeout failure is ever raised.
C8_NoTimeoutWhenNoneOrZero ==
    wb._timeout \in {None, 0} =>
        /\ sched.failed \notin TimeoutExc
        /\ \A c \in Calls : task[c].exc \notin TimeoutExc

\* C8, amended: with the timeout None no timeout failure is ever raised,
\* neither while stall is high nor while replies are outstanding at close.
C8_NoTimeoutWhenNone ==
    wb._timeout = None =>
        /\ sched.failed \notin TimeoutExc
        /\ \A c \in Calls : task[c].exc \notin TimeoutExc

\* without a timeout the master was stalled on MaxCount edges and has then
\* waited at close on MaxCount edges more, and still waits
C8_Witness ==
    /\ wb._timeout = None
    /\ \E c \in Calls :
          /\ task[c].st = "run" /\ task[c].pc = "close"
          /\ task[c].nstall = MaxCount /\ task[c].count = MaxCount
          /\ wb._acked_ops < wb._op_cnt

\* C9: with a timeout configured, if the slave never replies, a send_cycle
\* that has strobed an operation eventually raises a timeout failure.
C9_NoReplyTimesOut ==
    [](~bus.ack /\ ~bus.err /\ ~bus.rty) =>
        []((wb._timeout # None /\ ValidArg(1)
              /\ task[1].st = "run" /\ task[1].pc = "strobe") =>
                 <>(task[1].exc \in TimeoutExc))

\* C10: a send_cycle that finds the master busy waits: it leaves cyc, stb, the
\* buffers and the acknowledged count alone, and goes on only from a state
\* where busy is cleared and busy_event is set.
C10_BusyInvocationWaits ==
    [][\A c \in {1, 2} :
          /\ (RunsAt(c, "start") /\ is_sequence(task[c].arg) /\ Len(Ops(c)) >= 1
                /\ wb.busy) =>
                 /\ task'[c].st = "run" /\ task'[c].pc = "open_wait"
                 /\ bus'.cyc = bus.cyc /\ bus'.stb = bus.stb
                 /\ BuffersUnchanged
          /\ (task[c].st = "run" /\ task[c].pc = "open_wait") =>
                 \/ task'[c] = task[c]
                 \/ task'[c].st = "killed"
                 \/ wb.busy_event /\ ~wb.busy /\ RunsAt(c, "open_wait")]_vars

\* an invocation that found the master busy has opened its own cycle
C10_Witness ==
    /\ task[2].st = "run" /\ task[2].openedBusy /\ task[2].pc = "strobe"
    /\ task[1].st = "done"

\* ======================================================================
\* The Avalon-ST packet monitor (cocotbext/avalon/monitor.py) on top of
\* Monitor and BusMonitor (cocotb/monitor.py)
\* ======================================================================
MaxChannel        == 1   \* largest value of the channel signal
MaxInvalidTimeout == 2   \* largest configured invalidTimeout
MaxWords          == 3   \* valid cycles in a run
MaxCallbacks      == 2   \* registered callbacks
SymbolsPerWord    == 2   \* symbols of the data signal of a bus with empty

\* a symbol with X or Z bits
Unresolved == None - 1

\* number of symbols of the data signal: len(self.bus.data) / dataBitsPerSymbol
num_data_symbols(m) == IF m.config.useEmpty THEN SymbolsPerWord ELSE 1

\* data words the monitored interface presents, most significant symbol first
Word(b, n) == [k \in 1..n |-> b + k]
XWord(n)   == [k \in 1..n |-> IF k = n THEN Unresolved ELSE k]
DataSet(m) ==
    IF m.stim = "framing" THEN {Word(0, num_data_symbols(m))}
    ELSE {Word(0, num_data_symbols(m)), Word(num_data_symbols(m), num_data_symbols(m)),
          XWord(num_data_symbols(m))}

\* Monitor.__init__ with n callbacks, BusMonitor.__init__, and the locals of
\* AvalonSTPktsMonitor._monitor_recv before its loop
Monitor(cfg, sig, n, stim) ==
    [kind |-> "pkts", stim |-> stim,
     config |-> cfg,
     report_channel |-> sig.report_channel,
     has_channel |-> sig.has_channel, has_ready |-> sig.has_ready,
     has_reset |-> sig.has_reset, has_reset_n |-> sig.has_reset_n,
     _callbacks |-> n, calls |-> [c \in 1..n |-> <<>>], _recvQ |-> <<>>,
     received_transactions |-> 0, _wait_event_data |-> None,
     pkt |-> <<>>, in_pkt |-> FALSE, invalid_cyclecount |-> 0, channel |-> None,
     empty |-> None,
     channel_attr |-> None,
     failed |-> "none",
     words |-> 0,
     sampled |-> [kind |-> "none", reset |-> 0, reset_n |-> 1,
                  startofpacket |-> FALSE, endofpacket |-> FALSE,
                  data |-> <<>>, empty |-> 0, channel |-> 0]]

\* Monitor._recv
RecvAlwaysQueues(m, transaction) ==
    [m EXCEPT !.received_transactions = @ + 1,
              !.calls = [c \in 1..m._callbacks |-> Append(m.calls[c], transaction)],
              !._recvQ = Append(@, transaction),
              !._wait_event_data = transaction]
_recv(m, transaction) ==
    [m EXCEPT !.received_transactions = @ + 1,
              !.calls = [c \in 1..m._callbacks |-> Append(m.calls[c], transaction)],
              !._recvQ = IF m._callbacks = 0 THEN Append(@, transaction) ELSE @,
              !._wait_event_data = transaction]

\* BusMonitor.in_reset
InResetNever(m, i) == FALSE
in_reset(m, i) ==
    IF m.has_reset_n THEN i.reset_n = 0
    ELSE IF m.has_reset THEN i.reset # 0
    ELSE FALSE

\* valid() of _monitor_recv
valid(m, i) == IF m.has_ready THEN i.valid /\ i.ready ELSE i.valid

\* BinaryValue: a value is resolvable when none of its bits is X or Z; buff is
\* its bytes, the first symbol first when big_endian, else in reverse order
is_resolvable(value) == \A k \in 1..Len(value) : value[k] # Unresolved
Reverse(s) == [k \in 1..Len(s) |-> s[Len(s) + 1 - k]]
buff(value, big_endian) == IF big_endian THEN value ELSE Reverse(value)

\* the coroutine ends with an exception
Fail(m, what) == [m EXCEPT !.failed = what]

\* _monitor_recv: the completed packet is handed to _recv
RecvEndKeepsPacket(m, i) ==
    IF i.endofpacket
    THEN LET transaction == IF m.report_channel
                            THEN [data |-> m.pkt, channel |-> m.channel, dict |-> TRUE]
                            ELSE [data |-> m.pkt, channel |-> None, dict |-> FALSE]
         IN  _recv([m EXCEPT !.channel_attr = m.channel], transaction)
    ELSE m
recv_end(m, i) ==
    IF i.endofpacket
    THEN LET transaction == IF m.report_channel
                            THEN [data |-> m.pkt, channel |-> m.channel, dict |-> TRUE]
                            ELSE [data |-> m.pkt, channel |-> None, dict |-> FALSE]
             m1 == _recv([m EXCEPT !.channel_attr = m.channel], transaction)
         IN  [m1 EXCEPT !.pkt = <<>>, !.in_pkt = FALSE, !.channel = None]
    ELSE m

\* _monitor_recv: the channel of the word
ChannelAboveOrAtMax(channel, config) == channel >= config.maxChannel
ChannelAboveMax(channel, config) == channel > config.maxChannel

ChannelChangedNever(m, i) == FALSE
ChannelChanged(m, i) == i.channel # m.channel

recv_channel(m, i) ==
    IF m.has_channel
    THEN IF m.channel = None
         THEN LET m1 == [m EXCEPT !.channel = i.channel] IN
              IF ChannelAboveMax(m1.channel, m1.config)
              THEN Fail(m1, "channel_above_max")
              ELSE recv_end(m1, i)
         ELSE IF ChannelChanged(m, i)
              THEN Fail(m, "channel_changed")
              ELSE recv_end(m, i)
    ELSE recv_end(m, i)

\* _monitor_recv: value[:-empty] and value[empty:], in symbols
MaskSwapped(value, empty, firstSymbolInHighOrderBits) ==
    IF firstSymbolInHighOrderBits
    THEN SubSeq(value, empty + 1, Len(value))
    ELSE SubSeq(value, 1, Len(value) - empty)
Mask(value, empty, firstSymbolInHighOrderBits) ==
    IF firstSymbolInHighOrderBits
    THEN SubSeq(value, 1, Len(value) - empty)
    ELSE SubSeq(value, empty + 1, Len(value))

\* _monitor_recv: the data word is added to the packet
recv_word(m, i) ==
    LET hi == m.config.firstSymbolInHighOrderBits IN
    IF ~i.endofpacket
    THEN IF is_resolvable(i.data)
         THEN recv_channel([m EXCEPT !.pkt = @ \o buff(i.data, hi)], i)
         ELSE Fail(m, "ValueError")
    ELSE LET masked == m.config.useEmpty /\ i.empty # 0
             m1     == IF masked THEN [m EXCEPT !.empty = i.empty] ELSE m
             value  == IF masked THEN Mask(i.data, i.empty, hi) ELSE i.data
         IN  IF ~is_resolvable(value)
             THEN Fail(m1, IF m1.empty = None THEN "UnboundLocalError" ELSE "bad_value")
             ELSE recv_channel([m1 EXCEPT !.pkt = @ \o buff(value, hi)], i)

\* _monitor_recv: a valid cycle
PacketOpenNever(m) == FALSE
PacketOpen(m) == m.pkt # <<>>

OutsidePacketNever(m) == FALSE
OutsidePacket(m) == ~m.in_pkt

recv_valid(m, i) ==
    LET m1 == [m EXCEPT !.invalid_cyclecount = 0] IN
    IF i.startofpacket /\ PacketOpen(m1)
    THEN Fail(m1, "duplicate_start")
    ELSE LET m2 == IF i.startofpacket
                   THEN [m1 EXCEPT !.pkt = <<>>, !.in_pkt = TRUE]
                   ELSE m1
         IN  IF OutsidePacket(m2)
             THEN Fail(m2, "outside_packet")
             ELSE recv_word(m2, i)

\* _monitor_recv: a cycle that is not valid
InvalidTimedOutWhenExceeded(count, config) ==
    config.invalidTimeout # 0 /\ count > config.invalidTimeout
InvalidTimedOut(count, config) ==
    config.invalidTimeout # 0 /\ count >= config.invalidTimeout

recv_invalid(m) ==
    IF m.in_pkt
    THEN LET m1 == [m EXCEPT !.invalid_cyclecount = Inc(@)] IN
         IF InvalidTimedOut(m1.invalid_cyclecount, m1.config)
         THEN Fail(m1, "timeout")
         ELSE m1
    ELSE m

\* AvalonSTPktsMonitor._monitor_recv: one turn of its loop, on the clock edge
\* at which the signals have the values i
_monitor_recv(m, i) ==
    IF in_reset(m, i) THEN m
    ELSE IF valid(m, i) THEN recv_valid(m, i)
    ELSE recv_invalid(m)

\* the values the monitored signals can have at a clock edge; a signal the
\* bus does not have is given one value, and so are startofpacket,
\* endofpacket, data, empty and channel while valid is low
Inputs(m) ==
    [reset : IF m.has_reset THEN 0..1 ELSE {0},
     reset_n : IF m.has_reset_n THEN 0..1 ELSE {1},
     valid : {TRUE},
     ready : IF m.has_ready THEN BOOLEAN ELSE {TRUE},
     startofpacket : BOOLEAN,
     endofpacket : BOOLEAN,
     data : DataSet(m),
     empty : IF m.config.useEmpty THEN 0..SymbolsPerWord ELSE {0},
     channel : IF m.has_channel THEN 0..MaxChannel ELSE {0}]
    \cup
    [reset : IF m.has_reset THEN 0..1 ELSE {0},
     reset_n : IF m.has_reset_n THEN 0..1 ELSE {1},
     valid : {FALSE},
     ready : IF m.has_ready THEN BOOLEAN ELSE {TRUE},
     startofpacket : {FALSE},
     endofpacket : {FALSE},
     data : {Word(0, num_data_symbols(m))},
     empty : {0},
     channel : {0}]

\* what the monitor read at the edge: nothing but the reset inputs in reset,
\* nothing but these, valid and ready on a cycle that is not valid
Sampled(m, i) ==
    IF ~in_reset(m, i) /\ valid(m, i)
    THEN [kind |-> "valid", reset |-> i.reset, reset_n |-> i.reset_n,
          startofpacket |-> i.startofpacket,
          endofpacket |-> i.endofpacket, data |-> i.data, empty |-> i.empty,
          channel |-> i.channel]
    ELSE [kind |-> IF in_reset(m, i) THEN "reset" ELSE "invalid",
          reset |-> i.reset, reset_n |-> i.reset_n,
          startofpacket |-> FALSE, endofpacket |-> FALSE,
          data |-> <<>>, empty |-> 0, channel |-> 0]

\* no Wishbone master is part of the test
NoMaster == [kind |-> "none"]

\* the optional signals and reset inputs a monitor is built with: a bus with
\* or without channel and ready and no reset input, or a bus with channel and
\* a reset input, with or without a reset_n input
MonitorSignals ==
    {[has_channel |-> c, report_channel |-> r, has_ready |-> y,
      has_reset |-> FALSE, has_reset_n |-> FALSE] :
        c \in BOOLEAN, r \in BOOLEAN, y \in BOOLEAN}
    \cup
    {[has_channel |-> TRUE, report_channel |-> TRUE, has_ready |-> FALSE,
      has_reset |-> TRUE, has_reset_n |-> n] : n \in BOOLEAN}

\* a monitor of one-symbol words without callbacks: framing, channel,
\* timeout, reset
InitMon ==
    /\ wb = NoMaster /\ bus = NoMaster /\ task = NoMaster /\ sched = NoMaster
    /\ ctor = NoCtor
    /\ \E sig \in MonitorSignals, t \in 0..MaxInvalidTimeout, mc \in 0..MaxChannel :
          /\ sig.report_channel => sig.has_channel
          /\ ~sig.has_channel => mc = 0
          /\ mon = Monitor([dataBitsPerSymbol |-> 8, firstSymbolInHighOrderBits |-> TRUE,
                            maxChannel |-> mc, readyLatency |-> 0,
                            invalidTimeout |-> t, useEmpty |-> FALSE],
                           sig, 0, "framing")

\* a monitor of one-symbol words with up to MaxCallbacks callbacks, on a bus
\* without ready and reset: the sinks
InitSinks ==
    /\ wb = NoMaster /\ bus = NoMaster /\ task = NoMaster /\ sched = NoMaster
    /\ ctor = NoCtor
    /\ \E n \in 0..MaxCallbacks, c \in BOOLEAN :
          mon = Monitor([dataBitsPerSymbol |-> 8, firstSymbolInHighOrderBits |-> TRUE,
                         maxChannel |-> IF c THEN MaxChannel ELSE 0, readyLatency |-> 0,
                         invalidTimeout |-> 0, useEmpty |-> FALSE],
                        [has_channel |-> c, report_channel |-> c,
                         has_ready |-> FALSE, has_reset |-> FALSE,
                         has_reset_n |-> FALSE],
                        n, "framing")

\* a monitor of a bus without channel, ready and reset: the payload
InitPayload ==
    /\ wb = NoMaster /\ bus = NoMaster /\ task = NoMaster /\ sched = NoMaster
    /\ ctor = NoCtor
    /\ \E hi \in BOOLEAN, e \in BOOLEAN :
          mon = Monitor([dataBitsPerSymbol |-> 8, firstSymbolInHighOrderBits |-> hi,
                         maxChannel |-> 0, readyLatency |-> 0,
                         invalidTimeout |-> 0, useEmpty |-> e],
                        [has_channel |-> FALSE, report_channel |-> FALSE,
                         has_ready |-> FALSE, has_reset |-> FALSE,
                         has_reset_n |-> FALSE],
                        0, "payload")

\* a clock edge at which the signals have the values i: _monitor_recv runs
\* from its wait to its next wait, or to its exception
MonitorEdge(i) ==
    /\ mon.kind = "pkts"
    /\ mon.failed = "none"
    /\ LET m == _monitor_recv(mon, i)
           s == Sampled(mon, i)
       IN  /\ s.kind = "valid" => mon.words < MaxWords
           /\ mon' = [m EXCEPT !.sampled = s,
                                !.words = IF s.kind = "valid" THEN @ + 1 ELSE @]
    /\ UNCHANGED <<wb, bus, task, sched, ctor>>

NextMon == \E i \in Inputs(mon) : MonitorEdge(i)

SpecMon == InitMon /\ [][NextMon]_vars

SpecPayload == InitPayload /\ [][NextMon]_vars

SpecSinks == InitSinks /\ [][NextMon]_vars

\* --------------------------------------------- claims on the packet monitor
\* the step is a clock edge of the monitor, and the cycle was valid
ValidEdge == mon' # mon /\ mon'.sampled.kind = "valid"

\* nothing is handed to a callback, queued or counted in the step
NothingEmitted ==
    /\ mon'.received_transactions = mon.received_transactions
    /\ mon'._recvQ = mon._recvQ
    /\ mon'.calls = mon.calls

\* C11: a valid cycle with startofpacket while a packet is open raises the
\* duplicate-start error and emits nothing.
C11_DuplicateStartIsFatal ==
    [][(ValidEdge /\ mon'.sampled.startofpacket /\ mon.in_pkt) =>
          /\ mon'.failed = "duplicate_start"
          /\ NothingEmitted]_vars

\* a second start-of-packet arrived inside the second packet of the run
C11_Witness ==
    /\ mon.kind = "pkts"
    /\ mon.failed = "duplicate_start"
    /\ mon.sampled.kind = "valid" /\ mon.sampled.startofpacket
    /\ mon.in_pkt /\ mon.pkt # <<>>
    /\ mon.received_transactions = 1

\* C12: a valid cycle without startofpacket while no packet is open raises
\* the outside-of-packet error; its word is neither accumulated nor emitted.
C12_DataOutsidePacketIsFatal ==
    [][(ValidEdge /\ ~mon'.sampled.startofpacket /\ ~mon.in_pkt) =>
          /\ mon'.failed = "outside_packet"
          /\ mon'.pkt = mon.pkt
          /\ NothingEmitted]_vars

\* a word arrived after the first packet of the run had ended
C12_Witness ==
    /\ mon.kind = "pkts"
    /\ mon.failed = "outside_packet"
    /\ mon.sampled.kind = "valid" /\ ~mon.sampled.startofpacket
    /\ mon.pkt = <<>>
    /\ mon.received_transactions = 1

\* C13: with a channel signal the channel of the first valid word of a packet
\* is latched, a later word of the packet with another channel value is a
\* fatal error, and the latch is cleared with the end of the packet.
C13_ChannelFixedInPacket ==
    [][(ValidEdge /\ mon.has_channel) =>
          /\ (mon.in_pkt /\ ~mon'.sampled.startofpacket
                /\ mon'.sampled.channel # mon.channel) =>
                 /\ mon'.failed = "channel_changed"
                 /\ NothingEmitted
          /\ (mon'.failed = "none" /\ ~mon'.sampled.endofpacket) =>
                 mon'.channel = mon'.sampled.channel
          /\ (mon'.failed = "none" /\ mon'.sampled.endofpacket) =>
                 /\ mon'.channel = None
                 /\ mon'.channel_attr = mon'.sampled.channel
                 /\ mon.in_pkt => mon.channel = mon'.sampled.channel
                 /\ mon.report_channel =>
                        mon'._wait_event_data.channel = mon'.sampled.channel]_vars

\* after a packet on one channel, a packet on another channel changed channel
C13_Witness ==
    /\ mon.kind = "pkts"
    /\ mon.failed = "channel_changed"
    /\ mon.received_transactions = 1
    /\ mon.channel_attr # mon.channel
    /\ mon.sampled.channel = mon.channel_attr

\* C14: the first valid word of a packet with a channel value above
\* maxChannel is a fatal error and nothing is emitted; a channel value up to
\* maxChannel is accepted.
C14_ChannelAboveMaxIsFatal ==
    [][(ValidEdge /\ mon.has_channel /\ mon'.sampled.startofpacket /\ ~mon.in_pkt) =>
          IF mon'.sampled.channel > mon.config.maxChannel
          THEN mon'.failed = "channel_above_max" /\ NothingEmitted
          ELSE mon'.failed = "none"]_vars

\* channel 1 came with maxChannel 0
C14_Witness ==
    /\ mon.kind = "pkts"
    /\ mon.failed = "channel_above_max"
    /\ mon.config.maxChannel = 0
    /\ mon.sampled.channel = 1

\* the reset inputs read at the edge say reset
BusInReset(m, s) ==
    \/ m.has_reset_n /\ s.reset_n = 0
    \/ ~m.has_reset_n /\ m.has_reset /\ s.reset = 1

\* C15: on a clock edge in reset the monitor changes none of its state, raises
\* nothing and emits nothing, whatever the signals are.
C15_ResetEdgeChangesNothing ==
    [][(mon' # mon /\ BusInReset(mon, mon'.sampled)) =>
          /\ mon'.in_pkt = mon.in_pkt
          /\ mon'.pkt = mon.pkt
          /\ mon'.channel = mon.channel
          /\ mon'.invalid_cyclecount = mon.invalid_cyclecount
          /\ mon'.failed = "none"
          /\ NothingEmitted]_vars

\* the bus was in reset inside a packet, one edge short of the timeout
C15_Witness ==
    /\ mon.kind = "pkts"
    /\ mon.sampled.kind = "reset"
    /\ mon.in_pkt /\ mon.pkt # <<>>
    /\ mon.config.invalidTimeout = 2 /\ mon.invalid_cyclecount = 1

\* the step is a clock edge of the monitor, and the cycle was not valid
InvalidEdge == mon' # mon /\ mon'.sampled.kind = "invalid"

\* C16 as stated: with invalidTimeout T > 0 a run of up to T cycles that are
\* not valid inside an open packet is tolerated.
C16_TimeoutOnlyWhenExceeded ==
    [][(InvalidEdge /\ mon.in_pkt /\ mon.config.invalidTimeout > 0
          /\ mon.invalid_cyclecount + 1 <= mon.config.invalidTimeout) =>
             mon'.failed = "none"]_vars

\* C16, amended: with invalidTimeout T > 0 the timeout error is raised when
\* the count of consecutive cycles that are not valid inside an open packet
\* reaches T; a valid cycle resets the count, and cycles that are not valid
\* outside a packet do not count.
C16_TimeoutWhenReached ==
    [][/\ (InvalidEdge /\ mon.in_pkt) =>
              /\ mon'.invalid_cyclecount = Inc(mon.invalid_cyclecount)
              /\ mon'.failed = IF /\ mon.config.invalidTimeout > 0
                                  /\ mon.invalid_cyclecount + 1 >= mon.config.invalidTimeout
                               THEN "timeout" ELSE "none"
       /\ (InvalidEdge /\ ~mon.in_pkt) =>
              /\ mon'.invalid_cyclecount = mon.invalid_cyclecount
              /\ mon'.failed = "none"
       /\ ValidEdge => mon'.invalid_cyclecount = 0
       /\ InvalidEdge => NothingEmitted]_vars

\* with T = 2 the second consecutive cycle that was not valid raised the
\* timeout, in the second packet of the run
C16_Witness ==
    /\ mon.kind = "pkts"
    /\ mon.failed = "timeout"
    /\ mon.config.invalidTimeout = 2
    /\ mon.invalid_cyclecount = 2
    /\ mon.received_transactions = 1

\* C17: a transaction is emitted on the valid cycles with endofpacket of an
\* open packet that raise no error, one on each, and on no other cycle; after
\* it the monitor is idle with an empty accumulator and no channel latched.
C17_OneTransactionPerEndOfPacket ==
    [][mon' # mon =>
          /\ mon'.received_transactions \in
                 {mon.received_transactions, mon.received_transactions + 1}
          /\ (mon'.received_transactions = mon.received_transactions + 1) <=>
                 /\ mon'.sampled.kind = "valid"
                 /\ mon'.sampled.endofpacket
                 /\ mon.in_pkt \/ mon'.sampled.startofpacket
                 /\ mon'.failed = "none"
          /\ (mon'.received_transactions = mon.received_transactions + 1) =>
                 /\ ~mon'.in_pkt /\ mon'.pkt = <<>> /\ mon'.channel = None
                 /\ Len(mon'._recvQ) + (IF mon._callbacks > 0 THEN 1 ELSE 0)
                        = Len(mon._recvQ) + 1
                 /\ \A c \in 1..mon._callbacks :
                        Len(mon'.calls[c]) = Len(mon.calls[c]) + 1
          /\ (mon'.received_transactions = mon.received_transactions) =>
                 NothingEmitted]_vars

\* one word with startofpacket and endofpacket gave one transaction
C17_Witness ==
    /\ mon.kind = "pkts"
    /\ mon.sampled.kind = "valid"
    /\ mon.sampled.startofpacket /\ mon.sampled.endofpacket
    /\ mon.received_transactions = 1
    /\ mon._callbacks = 0 /\ Len(mon._recvQ) = 1
    /\ mon._recvQ[1].data = mon.sampled.data
    /\ ~mon.in_pkt

\* the bytes a data word adds to a packet: its symbols, the first symbol being
\* the high-order one when hi, the low-order one otherwise; on the final word
\* of a bus with empty, without its empty symbols
DropLowOrder(w, n)  == [k \in 1..(IF n < Len(w) THEN Len(w) - n ELSE 0) |-> w[k]]
DropHighOrder(w, n) == [k \in 1..(IF n < Len(w) THEN Len(w) - n ELSE 0) |-> w[k + n]]
WordBytes(w, hi) == IF hi THEN w ELSE [k \in 1..Len(w) |-> w[Len(w) + 1 - k]]
FinalWord(m, s) ==
    IF ~m.config.useEmpty THEN s.data
    ELSE IF m.config.firstSymbolInHighOrderBits THEN DropLowOrder(s.data, s.empty)
    ELSE DropHighOrder(s.data, s.empty)

\* C18: the payload of an emitted packet is the concatenation, in arrival
\* order, of the words of its valid cycles, the final word without its empty
\* symbols; cycles that are not valid add nothing.
C18_PayloadIsConcatenation ==
    [][mon' # mon =>
          LET s  == mon'.sampled
              hi == mon.config.firstSymbolInHighOrderBits
          IN  /\ s.kind # "valid" => mon'.pkt = mon.pkt
              /\ (s.kind = "valid" /\ s.startofpacket /\ mon'.failed = "none") =>
                     mon.pkt = <<>>
              /\ (s.kind = "valid" /\ ~s.endofpacket /\ mon'.failed = "none") =>
                     mon'.pkt = mon.pkt \o WordBytes(s.data, hi)
              /\ (s.kind = "valid" /\ s.endofpacket /\ mon'.failed = "none") =>
                     /\ mon'._recvQ # <<>>
                     /\ mon'._recvQ[Len(mon'._recvQ)].data =
                            mon.pkt \o WordBytes(FinalWord(mon, s), hi)]_vars

\* a packet of two words came in low-order-first symbols, one symbol of its
\* final word empty
C18_Witness ==
    /\ mon.kind = "pkts"
    /\ ~mon.config.firstSymbolInHighOrderBits /\ mon.config.useEmpty
    /\ mon.sampled.kind = "valid" /\ mon.sampled.endofpacket /\ mon.sampled.empty = 1
    /\ mon._recvQ # <<>>
    /\ Len(mon._recvQ[Len(mon._recvQ)].data) = 2 * SymbolsPerWord - 1

\* C19: a transaction handed to _recv goes to every registered callback once
\* and not to the queue, or, without callbacks, to the tail of the queue.
C19_OneSinkPerTransaction ==
    [][mon' # mon =>
          IF mon'.received_transactions = mon.received_transactions + 1
          THEN LET transaction == [data |-> mon.pkt \o mon'.sampled.data,
                                   channel |-> IF mon.report_channel
                                               THEN mon'.sampled.channel ELSE None,
                                   dict |-> mon.report_channel]
               IN  /\ \A c \in 1..mon._callbacks :
                          mon'.calls[c] = Append(mon.calls[c], transaction)
                   /\ mon'._recvQ = IF mon._callbacks = 0
                                    THEN Append(mon._recvQ, transaction)
                                    ELSE mon._recvQ
          ELSE NothingEmitted]_vars

\* two callbacks were each called with the two packets of the run
C19_Witness ==
    /\ mon.kind = "pkts"
    /\ mon._callbacks = 2
    /\ mon.received_transactions = 2
    /\ mon._recvQ = <<>>
    /\ Len(mon.calls[1]) = 2 /\ mon.calls[2] = mon.calls[1]
    /\ mon.calls[1][1] # mon.calls[1][2]

\* ======================================================================
\* Construction of an AvalonSTPktsMonitor
\* ======================================================================
ChannelWidthLimit == 128   \* widest channel signal the constructor accepts
PositionalArgs    == 3     \* entity, name, clock: passed by position to BusMonitor.__init__

\* the numbers 2^e + d that occur, with d in {-1, 0}; 1 is written 2^1 - 1
Num(e, d)     == [e |-> e, d |-> d]
Zero          == Num(0, -1)
Greater(x, y) == x.e > y.e \/ (x.e = y.e /\ x.d > y.d)
\* (2 ** len(self.bus.channel)) - 1
MaxOfWidth(w) == Num(w, -1)

ChannelWidths == {1, 2, ChannelWidthLimit, ChannelWidthLimit + 1}

\* the ways to construct: the signals of the bus and the config argument
CtorArgs ==
    {a \in [has_channel : BOOLEAN, channel_width : ChannelWidths \cup {0},
            report_channel : BOOLEAN,
            config_maxChannel : BOOLEAN,
            maxChannel : {Zero} \cup {Num(w, d) : w \in ChannelWidths, d \in {-1, 0}},
            data_width : {8, 12, 16}, dataBitsPerSymbol : {4, 8},
            has_empty : BOOLEAN] :
        /\ a.has_channel <=> a.channel_width # 0
        /\ ~a.config_maxChannel => a.maxChannel = Zero}

\* BusMonitor.__init__(self, **kwargs) called with n arguments by position
BusMonitor_init(n) == IF n > 0 THEN "TypeError" ELSE "ok"

\* AvalonSTPktsMonitor.__init__ after BusMonitor.__init__
init_config(a) ==
    LET default == IF a.has_channel THEN MaxOfWidth(a.channel_width) ELSE Zero
        mc      == IF a.config_maxChannel THEN a.maxChannel ELSE default
        \* len(self.bus.data) / dataBitsPerSymbol > 1
        multi   == a.data_width > a.dataBitsPerSymbol
    IN  IF ~a.has_channel /\ a.report_channel
        THEN [result |-> "ValueError", maxChannel |-> Zero, useEmpty |-> FALSE]
        ELSE IF multi /\ ~a.has_empty
        THEN [result |-> "AttributeError", maxChannel |-> mc, useEmpty |-> FALSE]
        ELSE IF a.has_channel /\ a.channel_width > ChannelWidthLimit
        THEN [result |-> "AttributeError", maxChannel |-> mc, useEmpty |-> multi]
        ELSE IF a.has_channel /\ Greater(mc, MaxOfWidth(a.channel_width))
        THEN [result |-> "AttributeError", maxChannel |-> mc, useEmpty |-> multi]
        ELSE [result |-> "ok", maxChannel |-> mc, useEmpty |-> multi]

\* AvalonSTPktsMonitor.__init__
AvalonSTPktsMonitor_init(a) ==
    IF BusMonitor_init(PositionalArgs) # "ok"
    THEN [result |-> BusMonitor_init(PositionalArgs), maxChannel |-> Zero,
          useEmpty |-> FALSE]
    ELSE init_config(a)

InitCtor ==
    /\ wb = NoMaster /\ bus = NoMaster /\ task = NoMaster /\ sched = NoMaster
    /\ mon = NoMonitor
    /\ \E a \in CtorArgs :
          ctor = [kind |-> "init", args |-> a,
                  out |-> [result |-> "pending", maxChannel |-> Zero, useEmpty |-> FALSE]]

\* the constructor runs
ConstructMonitor ==
    /\ ctor.kind = "init"
    /\ ctor.out.result = "pending"
    /\ ctor' = [ctor EXCEPT !.out = AvalonSTPktsMonitor_init(ctor.args)]
    /\ UNCHANGED <<wb, bus, task, sched, mon>>

NextCtor == ConstructMonitor

SpecCtor == InitCtor /\ [][NextCtor]_vars

\* the configurations the claim lists as failing
ClaimedToFail(a) ==
    \/ a.report_channel /\ ~a.has_channel
    \/ a.data_width > a.dataBitsPerSymbol /\ ~a.has_empty
    \/ /\ a.has_channel /\ a.config_maxChannel
       /\ Greater(a.maxChannel, MaxOfWidth(a.channel_width))

\* C20: construction fails when channel reporting is asked for without a
\* channel signal, when the word has more than one symbol and there is no
\* empty signal, or when maxChannel is above 2^(channel width) - 1; in every
\* other configuration it succeeds, maxChannel defaulting to
\* 2^(channel width) - 1 on a bus with a channel signal.
C20_ConstructionFailsOnBadConfigOnly ==
    (ctor.kind = "init" /\ ctor.out.result # "pending") =>
        /\ ClaimedToFail(ctor.args) <=> ctor.out.result # "ok"
        /\ (ctor.out.result = "ok" /\ ctor.args.has_channel
              /\ ~ctor.args.config_maxChannel) =>
                 ctor.out.maxChannel = MaxOfWidth(ctor.args.channel_width)

\* ======================================================================
\* TypedBus on top of Bus (cocotb/bus.py): the signal names of a bus type
\* and the alias mapping given at construction
\* ======================================================================
\* a list and a dict, as _build_sig_attr_dict tells them apart
List(s) == [isdict |-> FALSE, items |-> s]
Dict(f) == [isdict |-> TRUE, items |-> f]
EmptyDict == [n \in {} |-> ""]

\* AvalonSTBus._signals and AvalonSTBus._optional_signals
AvalonSTBus_signals          == List(<<"valid", "data">>)
AvalonSTBus_optional_signals == List(<<"ready">>)

\* the keys a caller uses in signals (the last one is no name of the bus
\* type) and the names they are mapped to
AliasKeys == {"data", "ready", "strobe"}
Aliases   == {"d", "ready"}
\* the signals an entity may have behind the bus prefix
EntityNames == {"valid", "data", "ready", "d"}

_build_sig_attr_dict(signals) ==
    IF signals.isdict THEN signals.items
    ELSE [sig \in {signals.items[k] : k \in DOMAIN signals.items} |-> sig]

\* d[k] = v on a dict
DictSet(d, k, v) == [x \in DOMAIN d \cup {k} |-> IF x = k THEN v ELSE d[x]]

\* the name of a signal on the entity (array_idx is None)
signame(name, bus_separator, sig_name) ==
    IF name # "" THEN <<name, bus_separator, sig_name>> ELSE <<sig_name>>

\* Bus.__init__: every signal of signals is looked up on the entity, the
\* optional ones only if the entity has them; a later setattr wins
Bus_init(entity, name, signals, optional_signals, bus_separator) ==
    LET req  == _build_sig_attr_dict(Dict(signals))
        opt  == _build_sig_attr_dict(Dict(optional_signals))
        sn(sig_name) == signame(name, bus_separator, sig_name)
        have == {attr_name \in DOMAIN opt : sn(opt[attr_name]) \in entity}
    IN  IF \E attr_name \in DOMAIN req : sn(req[attr_name]) \notin entity
        THEN [result |-> "AttributeError", bound |-> EmptyDict]
        ELSE [result |-> "ok",
              bound  |-> [attr_name \in DOMAIN req \cup have |->
                             IF attr_name \in have THEN sn(opt[attr_name])
                             ELSE sn(req[attr_name])]]

\* the test of line 235 on a key n of the signals argument
KeyIsSignal(n, signals) == n \in DOMAIN signals

\* the loop over signals.items()
RECURSIVE alias_loop(_, _, _, _)
alias_loop(todo, signals, _signals, _optional_signals) ==
    IF todo = {}
    THEN [raised |-> "none", _signals |-> _signals,
          _optional_signals |-> _optional_signals]
    ELSE LET n == CHOOSE x \in todo : TRUE IN
         IF KeyIsSignal(n, signals)
         THEN alias_loop(todo \ {n}, signals, DictSet(_signals, n, signals[n]),
                         _optional_signals)
         ELSE \* the elif reads optional_signals, which is no name in scope
              [raised |-> "NameError", _signals |-> _signals,
               _optional_signals |-> _optional_signals]

\* TypedBus.__init__ of the bus type AvalonSTBus
TypedBus_init(a) ==
    IF a.optional_signals_given
    THEN [result |-> "ValueError", bound |-> EmptyDict]
    ELSE LET l == alias_loop(DOMAIN a.signals, a.signals,
                             _build_sig_attr_dict(AvalonSTBus_signals),
                             _build_sig_attr_dict(AvalonSTBus_optional_signals))
         IN  IF l.raised # "none"
             THEN [result |-> l.raised, bound |-> EmptyDict]
             ELSE Bus_init(a.entity, a.name, l._signals, l._optional_signals, "_")

\* what a test may pass to the constructor
BusArgs ==
    {[name |-> name,
      entity |-> {signame(name, "_", x) : x \in e},
      signals |-> s,
      optional_signals_given |-> o] :
        name \in {"", "stream"}, e \in SUBSET EntityNames,
        s \in UNION {[K -> Aliases] : K \in SUBSET AliasKeys}, o \in BOOLEAN}

InitBus ==
    /\ wb = NoMaster /\ bus = NoMaster /\ task = NoMaster /\ sched = NoMaster
    /\ mon = NoMonitor
    /\ \E a \in BusArgs :
          ctor = [kind |-> "bus", args |-> a,
                  out |-> [result |-> "pending", bound |-> EmptyDict]]

\* the constructor runs
ConstructBus ==
    /\ ctor.kind = "bus"
    /\ ctor.out.result = "pending"
    /\ ctor' = [ctor EXCEPT !.out = TypedBus_init(ctor.args)]
    /\ UNCHANGED <<wb, bus, task, sched, mon>>

NextBus == ConstructBus

SpecBus == InitBus /\ [][NextBus]_vars

DeclaredSignals ==
    DOMAIN _build_sig_attr_dict(AvalonSTBus_signals)
        \cup DOMAIN _build_sig_attr_dict(AvalonSTBus_optional_signals)

\* C21: a key of the signals mapping that is neither a required nor an
\* optional signal of the bus type makes the construction raise ValueError,
\* and no signal is bound under that name; a construction that succeeds had
\* declared names as keys only.
C21_UndeclaredAliasIsRejected ==
    (ctor.kind = "bus" /\ ctor.out.result # "pending") =>
        \A n \in DOMAIN ctor.args.signals :
            n \notin DeclaredSignals =>
                /\ ctor.out.result = "ValueError"
                /\ n \notin DOMAIN ctor.out.bound

\* ======================================================================
\* The Wishbone master: one cycle after another, and cycles that compete
\* ======================================================================
\* failures raised inside an open cycle
CycleFailures == TimeoutExc \cup {"protocol"}

OutputsUnchanged ==
    /\ bus'.cyc = bus.cyc /\ bus'.stb = bus.stb /\ bus'.we = bus.we
    /\ bus'.adr = bus.adr /\ bus'.datwr = bus.datwr /\ bus'.sel = bus.sel

\* C22: after a cycle ended in a timeout or a protocol failure, busy stays
\* set and busy_event unset, and a later send_cycle with operations to carry
\* out goes to wait in open and stays there: it drives nothing, does not
\* return and raises nothing, whatever the timeout.
C22_AbandonedCycleBlocksOpen ==
    [][sched.failed \in CycleFailures =>
          /\ wb.busy /\ ~wb.busy_event
          /\ wb'.busy /\ ~wb'.busy_event
          /\ OutputsUnchanged
          /\ \A c \in {1, 2} :
                /\ (RunsAt(c, "start") /\ is_sequence(task[c].arg) /\ Len(Ops(c)) >= 1) =>
                       task'[c].st = "run" /\ task'[c].pc = "open_wait"
                /\ (task[c].st = "run" /\ task[c].pc = "open_wait") =>
                       task'[c] = task[c]]_vars

\* with a timeout configured, the first cycle timed out waiting for replies
\* and the second invocation waits in open, with nothing left to resume it
C22_Witness ==
    /\ sched.failed = "timeout_reply" /\ wb._timeout # None
    /\ task[1].st = "exc"
    /\ task[2].st = "run" /\ task[2].pc = "open_wait"
    /\ sched.waiters = <<>> /\ sched.runq = <<>>

\* the invocation whose coroutine is being resumed
Running == Head(sched.runq).c

\* while the cycle of c was open, send_cycle was invoked with a list of
\* another length, and that invocation waits for the master
InvokedMeanwhile(c) ==
    \E d \in Calls \ {c} :
        /\ task[d].st = "run" /\ task[d].pc = "open_wait"
        /\ Len(Ops(d)) # Len(Ops(c))

\* C23: the cycle's close waits for as many replies as the cycle's own
\* operation list is long, also when send_cycle was invoked with a list of
\* another length while the cycle was open: cyc is lowered only when that
\* many replies were collected, and the invocation returns one result for
\* each of its operations.
C23_CloseWaitsForOwnOperations ==
    [][\A c \in {1, 2} :
          /\ (RunsAt(c, task[c].pc) /\ InvokedMeanwhile(c)
                /\ bus.cyc = 1 /\ bus'.cyc = 0) =>
                 wb._acked_ops >= Len(Ops(c))
          /\ (task[c].st = "run" /\ task'[c].st = "ret" /\ task[3 - c].openedBusy
                /\ Len(Ops(3 - c)) # Len(Ops(c))) =>
                 Len(task'[c].result) = Len(Ops(c))]_vars

\* the coroutines of kind k that wait for the clock edge or are to be resumed
Active(k) ==
    LET q == sched.waiters \o sched.runq
    IN  Cardinality({n \in 1..Len(q) : q[n].k = k})

\* an invocation that found the master busy has opened its cycle
OpenedAfterWaiting ==
    \E c \in Calls :
        task[c].st = "run" /\ task[c].openedBusy /\ task[c].pc # "open_wait"

\* C24: while a cycle is open the master has at most one reply collector
\* and at most one cycle counter, also in the cycle of an invocation that
\* waited for the master and opened as the cycle before it closed.
C24_OneReaderOneCounter ==
    (wb.busy /\ OpenedAfterWaiting) =>
        (Active("read") <= 1 /\ Active("counter") <= 1)

\* the pcs at which send_cycle waits for a clock edge inside its cycle
CyclePcs == {"idle", "strobe", "stall", "ack", "close"}

\* reply collectors that have yet to sample the current edge
ReadersToRun ==
    Cardinality({n \in 1..Len(sched.runq) : sched.runq[n].k = "read"})

\* C25: at a clock edge of an open cycle the reply collector has sampled
\* the edge before the invocation that drives or closes the cycle resumes;
\* when the edge brings the last outstanding reply, close resumed at that
\* edge finds every operation acknowledged, clears busy and lowers cyc.
C25_ReaderBeforeDriver ==
    [][\A c \in {1} :
          /\ (task[c].pc \in CyclePcs /\ RunsAt(c, task[c].pc)) => ReadersToRun = 0
          /\ (RunsAt(c, "close") /\ _get_reply(bus).ack
                /\ wb._acked_ops + ReadersToRun >= wb._op_cnt) =>
                 /\ bus'.cyc = 0 /\ ~wb'.busy
                 /\ task'[c].pc = "closed"]_vars

\* close waited for the last reply of two and lowered cyc at the edge that
\* brought it
C25_Witness ==
    /\ task[1].st = "run" /\ task[1].pc = "closed" /\ task[1].count >= 1
    /\ Len(Ops(1)) = 2 /\ wb._acked_ops = 2
    /\ bus.ack /\ bus.cyc = 0
    /\ sched.runq = <<>>

\* the invocation c runs the loop test of _close_cycle in this step
TestsClose(c) ==
    /\ RunsAt(c, task[c].pc)
    /\ \/ task[c].pc = "close"
       \/ task'[c].pc \in {"close", "closed"}
       \/ task'[c].exc = "timeout_reply"

\* the clock edges c has waited for in _close_cycle
WaitedInClose(c) == IF task[c].pc = "close" THEN task[c].count ELSE 0

\* C26 as stated: the reply timeout is raised only when replies are still
\* outstanding after more than T clock edges waited in close.
C26_ReplyTimeoutOnlyWhenExceeded ==
    [][\A c \in {1} :
          (TestsClose(c) /\ task'[c].exc = "timeout_reply") =>
              WaitedInClose(c) > wb._timeout]_vars

\* C26, amended: with the timeout T, close ends without a failure when every
\* reply is there after at most T waited clock edges, goes on waiting while
\* replies are outstanding after fewer than T edges, and raises the reply
\* timeout when replies are still outstanding after T waited edges, before
\* it waits for another edge.
C26_ReplyTimeoutWhenReached ==
    [][\A c \in {1} :
          (TestsClose(c) /\ wb._timeout # None) =>
              /\ ~CloseWaits(wb) =>
                     task'[c].pc = "closed" /\ task'[c].exc = "none"
              /\ (CloseWaits(wb) /\ WaitedInClose(c) < wb._timeout) =>
                     task'[c].pc = "close" /\ task'[c].exc = "none"
              /\ (CloseWaits(wb) /\ WaitedInClose(c) >= wb._timeout) =>
                     task'[c].exc = "timeout_reply"]_vars

\* with T = 1 both operations were issued, one reply came, and the reply
\* timeout was raised
C26_Witness ==
    /\ wb._timeout = 1
    /\ task[1].exc = "timeout_reply"
    /\ Len(wb._aux_buf) = 2 /\ wb._acked_ops = 1

\* C27: on a bus without a stall signal, operation number i is finished and
\* its strobe de-asserted only when the reply collector has recorded at
\* least i replies in the cycle, and close never waits for a reply.
C27_ClassicWaitsForReply ==
    [][~bus.has_stall =>
          \A c \in {1} :
              /\ (RunsAt(c, task[c].pc) /\ bus.stb = 1 /\ bus'.stb = 0) =>
                     wb._acked_ops >= task[c].i
              /\ (task[c].i >= 1 /\ task'[c].i > task[c].i) =>
                     wb._acked_ops >= task[c].i
              /\ task'[c].pc # "close"]_vars

\* on a bus without stall the first operation got its reply and the second
\* one is held under strobe, waiting for its own
C27_Witness ==
    /\ ~bus.has_stall
    /\ task[1].st = "run" /\ task[1].pc = "ack" /\ task[1].i = 2
    /\ wb._acked_ops = 1 /\ Len(wb._aux_buf) = 2
    /\ bus.stb = 1 /\ bus.adr = Ops(1)[2].adr
    /\ sched.runq = <<>>

\* the outputs of the operation under strobe stay as they are
OutputsHeld ==
    /\ bus'.stb = 1 /\ bus'.we = bus.we
    /\ bus'.adr = bus.adr /\ bus'.sel = bus.sel /\ bus'.datwr = bus.datwr

\* operation number task[c].i is finished in this step with s stalled
\* edges: it is recorded, and strobe and write enable are reset unless the
\* next operation is strobed in the same time step
FinishedAfter(c, s) ==
    /\ Len(wb'._aux_buf) = Len(wb._aux_buf) + 1
    /\ wb'._aux_buf[Len(wb'._aux_buf)].waitStall = s
    /\ \/ bus'.stb = 0 /\ bus'.we = 0
       \/ task'[c].pc = "strobe" /\ task'[c].i = task[c].i + 1

\* C28: on a bus with a stall signal the outputs of an operation are held
\* over the edge after the strobe and over one more edge for every edge at
\* which stall is sampled high, and are released at the first edge at which
\* stall is low: after 1 + s edges for s stalled ones.  Strobe and write
\* enable are low while the idle cycles of the next operation pass.  (An
\* operation failed by the stall timeout is not released.)
C28_StrobeHeldWhileStalled ==
    [][bus.has_stall =>
          \A c \in {1} :
              /\ (RunsAt(c, "strobe") /\ ~bus.stall) => FinishedAfter(c, 0)
              /\ (RunsAt(c, "strobe") /\ bus.stall) =>
                     task'[c].pc = "stall" /\ task'[c].nstall = 1 /\ OutputsHeld
              /\ (RunsAt(c, "stall") /\ ~TimedOut(task[c].count + 1, wb._timeout)) =>
                     IF bus.stall
                     THEN /\ task'[c].pc = "stall" /\ OutputsHeld
                          /\ task'[c].nstall = Inc(task[c].nstall)
                     ELSE FinishedAfter(c, task[c].nstall)
              /\ (RunsAt(c, task[c].pc) /\ task'[c].pc \in {"idle", "close", "closed"}) =>
                     bus'.stb = 0 /\ bus'.we = 0]_vars

\* the first operation was held over two stalled edges and released, and
\* the second one is under strobe
C28_Witness ==
    /\ bus.has_stall
    /\ task[1].st = "run" /\ task[1].pc = "strobe" /\ task[1].i = 2
    /\ Len(wb._aux_buf) = 1 /\ wb._aux_buf[1].waitStall = 2
    /\ bus.stb = 1 /\ bus.adr = Ops(1)[2].adr

\* the outputs carry operation number k of invocation c under strobe
Strobed(c, k) ==
    /\ bus'.stb = 1
    /\ bus'.adr = Ops(c)[k].adr /\ bus'.sel = Ops(c)[k].sel
    /\ bus'.we = (IF Ops(c)[k].dat # None THEN 1 ELSE 0)
    /\ bus'.datwr = (IF Ops(c)[k].dat # None THEN Ops(c)[k].dat ELSE 0)

\* C29: the operations are taken in submission order; one with idle count n
\* is strobed after exactly n clock edges waited with strobe low, counted
\* from the end of the operation before it or from the opening of the
\* cycle (n = 0: in the same time step), and its result has waitIdle n.
C29_IdleCyclesBeforeStrobe ==
    [][\A c \in {1} :
          /\ (task[c].st = "run" /\ task'[c].st = "run" /\ task'[c].i # task[c].i) =>
                 /\ task'[c].i = task[c].i + 1
                 /\ task'[c].i <= Len(Ops(c)) =>
                        IF Ops(c)[task'[c].i].idle = 0
                        THEN task'[c].pc = "strobe" /\ Strobed(c, task'[c].i)
                        ELSE /\ task'[c].pc = "idle" /\ bus'.stb = 0
                             /\ task'[c].idlecnt = Ops(c)[task'[c].i].idle - 1
          /\ RunsAt(c, "idle") =>
                 /\ task'[c].i = task[c].i
                 /\ IF task[c].idlecnt = 0
                    THEN task'[c].pc = "strobe" /\ Strobed(c, task[c].i)
                    ELSE /\ task'[c].pc = "idle" /\ bus'.stb = 0
                         /\ task'[c].idlecnt = task[c].idlecnt - 1
          /\ (task[c].st = "run" /\ task'[c].st = "ret") =>
                 \A k \in 1..Len(task'[c].result) :
                     task'[c].result[k].waitIdle = Ops(c)[k].idle]_vars

\* the first operation, with the largest idle count, is under strobe after
\* that many clock edges of the cycle
C29_Witness ==
    /\ task[1].st = "run" /\ task[1].pc = "strobe" /\ task[1].i = 1
    /\ Ops(1)[1].idle = MaxIdle
    /\ wb._clk_cycle_count = MaxIdle
    /\ bus.stb = 1 /\ bus.cyc = 1

\* the reply collector records one result in this step, with this code and
\* with the read data that is on the bus
Recorded(code) ==
    /\ Len(wb'._res_buf) = Len(wb._res_buf) + 1
    /\ wb'._res_buf[Len(wb'._res_buf)].ack = code
    /\ wb'._res_buf[Len(wb'._res_buf)].datrd = bus.datrd
    /\ wb'._acked_ops = wb._acked_ops + 1

\* C30: the reply collector, resumed at a clock edge of an open cycle,
\* records code 1 for ack alone, 2 for err alone and 3 for rty alone, each
\* with the read data of that edge; with no line asserted it records nothing
\* and leaves the acknowledged count alone; and there are always as many
\* recorded results as acknowledged operations.
C30_ReplyCodes ==
    [][/\ (Runs("read") /\ wb.busy) =>
              /\ (bus.ack /\ ~bus.err /\ ~bus.rty) => Recorded(1)
              /\ (~bus.ack /\ bus.err /\ ~bus.rty) => Recorded(2)
              /\ (~bus.ack /\ ~bus.err /\ bus.rty) => Recorded(3)
              /\ (~bus.ack /\ ~bus.err /\ ~bus.rty) => BuffersUnchanged
       /\ Len(wb'._res_buf) = wb'._acked_ops]_vars

\* in an open cycle the collector has recorded an err and then a rty, each
\* with the data of its edge
C30_Witness ==
    /\ wb.busy /\ wb._acked_ops = 2
    /\ wb._res_buf[1].ack = 2 /\ wb._res_buf[1].datrd = 2
    /\ wb._res_buf[2].ack = 3 /\ wb._res_buf[2].datrd = 4

\* C31: the waitAck of every returned result, the cycle counter captured
\* with the reply minus the counter recorded when the operation was issued,
\* is not negative, also when the reply is there at the first clock edge
\* after the strobe.
C31_WaitAckNotNegative ==
    \A c \in Calls :
        task[c].st = "ret" =>
            \A k \in 1..Len(task[c].result) : task[c].result[k].waitAck >= 0

\* with three tests on one master the slave may reply while the result
\* buffer stays within this
MaxResCrowd == 3

\* three tests use the same master, without a timeout; each submits one
\* operation
InitCrowd == \E opt \in OptSignalsShared : Construct(None, opt, {1, 2, 3})

CrowdArgs == {[seq |-> TRUE, items |-> <<OpWrite>>],
              [seq |-> TRUE, items |-> <<OpRead>>]}

NextCrowd ==
    \/ \E c \in Calls, arg \in CrowdArgs, front \in BOOLEAN : Call(c, arg, front)
    \/ \E o \in SlaveOutputs, stall \in BOOLEAN : ClockEdgeWithin(o, stall, MaxResCrowd)
    \/ ReadStep
    \/ CounterStep
    \/ \E c \in Calls : SendCycleStart(c)
    \/ \E c \in Calls : OpenCycleResume(c)
    \/ \E c \in Calls : DriveIdle(c)
    \/ \E c \in Calls : DriveStrobed(c)
    \/ \E c \in Calls : WaitStallResume(c)
    \/ \E c \in Calls : WaitAckResume(c)
    \/ \E c \in Calls : CloseCycleResume(c)
    \/ \E c \in Calls : SendCycleReturn(c)
    \/ \E c \in Calls : Returned(c)

SpecCrowd == InitCrowd /\ [][NextCrowd]_vars

\* C32: in every state of the master, strobe asserted implies cyc
\* asserted: no strobe is presented outside an open cycle.
C32_StrobeOnlyInsideCycle ==
    bus.stb = 1 => bus.cyc = 1

====
